---- MODULE Spec2Model ----
(***************************************************************************)
(* Sequential funnel analysis of trainwell-funnel:                         *)
(*   EventService.analyzeFunnel      (server/src/services/event.service.ts)*)
(*   EventRepository.getUsersForStep / getUsersCompletingSequentialSteps   *)
(*                                   (server/src/repositories/             *)
(*                                    event.repository.ts)                 *)
(* An invocation of analyzeFunnel is an async function: it runs without    *)
(* interruption from one await to the next, and every await is one store   *)
(* query (collection.aggregate(pipeline).toArray()).  The model has one    *)
(* action per such stretch of code.                                        *)
(***************************************************************************)
EXTENDS FiniteSets, Integers, Sequences, TLC

(* ------------------------------ bounds --------------------------------- *)
\* longest steps array of a request
MaxSteps == 2
\* largest number of events in the store
MaxEvents == 2
\* longest list of rows the campaign repository returns
MaxCampaigns == 2
\* most calls of getDb(), and of disconnect(), made after startServer began
MaxCalls == 2

(* --------------------------- input universe ---------------------------- *)
Invocations == {"r1", "r2"}
Users == {"u1", "u2"}
\* the instants events carry; they are the instants the two parseable date
\* strings below denote
EventDates == {1, 2}
\* content.path and content.hostname values; both fields range over the same
\* strings so that a path can coincide with a hostname matcher
Paths == {"/", "www.trainwell.net"}
Hostnames == {"/", "www.trainwell.net"}
Platforms == {"web", "ios"}
EventTypes == {"page_view", "click"}
DateStrings == {"2025-01-01T00:00:00Z", "2025-01-31T23:59:59Z", "invalid-date"}

EventUniverse ==
  [user_id : Users, date : EventDates, platform : Platforms, type : EventTypes,
   path : Paths, hostname : Hostnames]

WebPageViews == {e \in EventUniverse : e.platform = "web" /\ e.type = "page_view"}

StepConfigs ==
  { [name |-> "Homepage", matchType |-> "path", matchValue |-> "/"],
    [name |-> "Landing", matchType |-> "path", matchValue |-> "www.trainwell.net"],
    [name |-> "Root host", matchType |-> "hostname", matchValue |-> "/"],
    [name |-> "Main Site", matchType |-> "hostname", matchValue |-> "www.trainwell.net"] }

SeqsUpTo(S, n) == UNION { [1..m -> S] : m \in 0..n }

Requests ==
  [steps : SeqsUpTo(StepConfigs, MaxSteps), startDate : DateStrings, endDate : DateStrings]

\* the subsets of universe with at most n elements, built up by size
RECURSIVE BoundedSubsets(_, _)
BoundedSubsets(universe, n) ==
  IF n = 0 THEN {{}}
  ELSE LET smaller == BoundedSubsets(universe, n - 1)
       IN smaller \cup {s \cup {e} : s \in smaller, e \in universe}

Stores(universe) == {s \in SUBSET universe : Cardinality(s) <= MaxEvents}

(* ------------------------------ values --------------------------------- *)
\* a Date whose getTime() is NaN
InvalidDate == [valid |-> FALSE, time |-> 0]
ValidDate(t) == [valid |-> TRUE, time |-> t]
\* an omitted previousStepUsers argument, and a supplied one
Undefined == [defined |-> FALSE, users |-> {}]
Supplied(users) == [defined |-> TRUE, users |-> users]
\* a string condition that the filter does not carry
Absent == "absent"
\* the state of a query: in flight, returned with its users, or rejected
Pending == [status |-> "pending", users |-> {}]
Returned(users) == [status |-> "returned", users |-> users]
Failed == [status |-> "failed", users |-> {}]
NoRequest == [steps |-> <<>>, startDate |-> "", endDate |-> ""]
NoOutcome == [kind |-> "none"]
NoExchange == [body |-> [kind |-> "none"], response |-> [kind |-> "none"]]
NotAbandoned == [yes |-> FALSE, queries |-> 0]
NoCampaignCall ==
  [pc |-> "idle", request |-> [startDate |-> "", endDate |-> ""], calls |-> <<>>,
   response |-> [kind |-> "none"]]
NotStarted ==
  [pc |-> "start", db |-> "null", closing |-> FALSE, exiting |-> FALSE,
   dependencies |-> FALSE, listening |-> FALSE, probes |-> 0, disconnects |-> 0,
   log |-> <<>>]

\* new Date(str): the instant a date string denotes, an invalid Date when it
\* does not parse
ParseDate(str) ==
  CASE str = "2025-01-01T00:00:00Z" -> ValidDate(1)
    [] str = "2025-01-31T23:59:59Z" -> ValidDate(2)
    [] OTHER -> InvalidDate

\* isNaN(date.getTime())
IsNaN(date) == ~date.valid

(* ----------------------- percentages (exact) --------------------------- *)
\* A JavaScript number that is a quotient of counts is kept as the exact
\* fraction <<numerator, denominator>> in lowest terms, denominator > 0.
Abs(n) == IF n < 0 THEN -n ELSE n

RECURSIVE GCD(_, _)
GCD(a, b) == IF b = 0 THEN a ELSE GCD(b, a % b)

Rat(n, d) == LET g == GCD(Abs(n), d) IN <<n \div g, d \div g>>

Zero == Rat(0, 1)
Hundred == Rat(100, 1)
\* (a / b) * 100
Percent(a, b) == Rat(100 * a, b)
RatMinus(x, y) == Rat(x[1] * y[2] - y[1] * x[2], x[2] * y[2])
RatPlus(x, y) == Rat(x[1] * y[2] + y[1] * x[2], x[2] * y[2])
RatDiv(x, n) == Rat(x[1], x[2] * n)
RatLeq(x, y) == x[1] * y[2] <= y[1] * x[2]

RECURSIVE RatSum(_)
RatSum(rs) == IF Len(rs) = 0 THEN Zero ELSE RatPlus(rs[1], RatSum(Tail(rs)))

(* ---------------------------- the store -------------------------------- *)
\* matchConditions with the branches of the matchType test exchanged
MatchConditionsSwapped(step, startDate, endDate, previousStepUsers) ==
  [platform |-> "web",
   type |-> "page_view",
   user_id |-> IF previousStepUsers.defined /\ Cardinality(previousStepUsers.users) > 0
               THEN [present |-> TRUE, in |-> previousStepUsers.users]
               ELSE [present |-> FALSE, in |-> {}],
   date |-> [gte |-> startDate.time, lte |-> endDate.time],
   path |-> IF step.matchType = "path" THEN Absent ELSE step.matchValue,
   hostname |-> IF step.matchType = "path" THEN step.matchValue ELSE Absent]

\* matchConditions of getUsersForStep
MatchConditions(step, startDate, endDate, previousStepUsers) ==
  [platform |-> "web",
   type |-> "page_view",
   user_id |-> IF previousStepUsers.defined /\ Cardinality(previousStepUsers.users) > 0
               THEN [present |-> TRUE, in |-> previousStepUsers.users]
               ELSE [present |-> FALSE, in |-> {}],
   date |-> [gte |-> startDate.time, lte |-> endDate.time],
   path |-> IF step.matchType = "path" THEN step.matchValue ELSE Absent,
   hostname |-> IF step.matchType = "path" THEN Absent ELSE step.matchValue]

\* a $match stage that, like buildQuery, fixes the platform but not the type
MatchesAnyType(e, m) ==
  /\ e.platform = m.platform
  /\ m.user_id.present => e.user_id \in m.user_id.in
  /\ m.date.gte <= e.date /\ e.date <= m.date.lte
  /\ m.path # Absent => e.path = m.path
  /\ m.hostname # Absent => e.hostname = m.hostname

\* the $match stage: every condition present in the filter holds of the event
Matches(e, m) ==
  /\ e.platform = m.platform
  /\ e.type = m.type
  /\ m.user_id.present => e.user_id \in m.user_id.in
  /\ m.date.gte <= e.date /\ e.date <= m.date.lte
  /\ m.path # Absent => e.path = m.path
  /\ m.hostname # Absent => e.hostname = m.hostname

\* [{$match}, {$group: {_id: '$user_id'}}, {$project}] and result.map(user_id):
\* the distinct user ids of the matching events
Aggregate(events, m) == {e.user_id : e \in {x \in events : Matches(x, m)}}

(* ------------------------------ state ---------------------------------- *)
VARIABLES
  store,          \* the events collection
  pc,             \* per invocation: idle, awaiting (a store query), resolved, rejected
  request,        \* per invocation: the FunnelAnalysisRequest
  i,              \* per invocation: the loop index of analyzeFunnel
  stepResults,    \* per invocation: stepResults of analyzeFunnel
  previousUsers,  \* per invocation: previousUsers of analyzeFunnel
  queryLog,       \* per invocation: the getUsersForStep calls made, with their results
  outcome,        \* per invocation: what the promise settled to
  http,           \* per invocation: the body posted to the controller and its response
  abandoned,      \* per invocation: whether the caller has gone, and the queries made by then
  campaign,       \* the call of CampaignService.analyzeCampaigns
  boot            \* startServer and the MongoDBClient singleton

vars == <<store, pc, request, i, stepResults, previousUsers, queryLog, outcome,
          http, abandoned, campaign, boot>>

\* the state outside EventService and EventRepository
others == <<http, abandoned, campaign, boot>>

(* ------------------------ EventService.analyzeFunnel ------------------- *)
NoError == "no error"

\* the validations with the dates examined before the steps
ValidationErrorDatesFirst(req) ==
  IF IsNaN(ParseDate(req.startDate)) \/ IsNaN(ParseDate(req.endDate))
  THEN "Invalid date format"
  ELSE IF Len(req.steps) = 0 THEN "At least one funnel step is required"
       ELSE NoError

\* the validations with the dates rejected only when both are invalid
ValidationErrorBothDates(req) ==
  IF Len(req.steps) = 0 THEN "At least one funnel step is required"
  ELSE IF IsNaN(ParseDate(req.startDate)) /\ IsNaN(ParseDate(req.endDate))
       THEN "Invalid date format"
       ELSE NoError

\* the validations with the date order check of analyzeCampaigns added
ValidationErrorOrdered(req) ==
  IF Len(req.steps) = 0 THEN "At least one funnel step is required"
  ELSE IF IsNaN(ParseDate(req.startDate)) \/ IsNaN(ParseDate(req.endDate))
       THEN "Invalid date format"
       ELSE IF ParseDate(req.startDate).time > ParseDate(req.endDate).time
            THEN "Start date must be before end date"
            ELSE NoError

\* the two validations at the head of analyzeFunnel
ValidationError(req) ==
  IF Len(req.steps) = 0 THEN "At least one funnel step is required"
  ELSE IF IsNaN(ParseDate(req.startDate)) \/ IsNaN(ParseDate(req.endDate))
       THEN "Invalid date format"
       ELSE NoError

\* one call of getUsersForStep up to its await: the query it sends
StepQuery(req, stepIndex, k, previousStepUsers) ==
  [stepIndex |-> stepIndex,
   step |-> k,
   previousStepUsers |-> previousStepUsers,
   match |-> MatchConditions(req.steps[k + 1], ParseDate(req.startDate),
                             ParseDate(req.endDate), previousStepUsers),
   result |-> Pending]

\* the step result with the percentages kept as the loop computes them
StepResultOf(req, idx, userCount, conversionRate, stepConversionRate) ==
  [step |-> req.steps[idx + 1].name,
   stepIndex |-> idx,
   users |-> userCount,
   conversionRate |-> conversionRate,
   dropoffRate |-> IF idx = 0 THEN Zero ELSE RatMinus(Hundred, stepConversionRate),
   stepConversionRate |-> stepConversionRate]

\* a step result whose conversionRate has the 100 of stepConversionRate for a
\* zero denominator
StepResultNoZeroGuard(req, idx, userCount, results, prevUsers) ==
  LET totalUsers == IF idx = 0 THEN userCount
                    ELSE IF Len(results) > 0 THEN results[1].users ELSE 0
  IN StepResultOf(req, idx, userCount,
                  IF totalUsers > 0 THEN Percent(userCount, totalUsers) ELSE Hundred,
                  IF idx = 0 \/ prevUsers = 0 THEN Hundred ELSE Percent(userCount, prevUsers))

\* a step result whose totalUsers is read from stepResults[0] at every index
StepResultTotalFromResults(req, idx, userCount, results, prevUsers) ==
  LET totalUsers == IF Len(results) > 0 THEN results[1].users ELSE 0
  IN StepResultOf(req, idx, userCount,
                  IF totalUsers > 0 THEN Percent(userCount, totalUsers) ELSE Zero,
                  IF idx = 0 \/ prevUsers = 0 THEN Hundred ELSE Percent(userCount, prevUsers))

\* a step result whose stepConversionRate is 0 when the previous step had no
\* users
StepResultZeroWhenNoPrevious(req, idx, userCount, results, prevUsers) ==
  LET totalUsers == IF idx = 0 THEN userCount
                    ELSE IF Len(results) > 0 THEN results[1].users ELSE 0
  IN StepResultOf(req, idx, userCount,
                  IF totalUsers > 0 THEN Percent(userCount, totalUsers) ELSE Zero,
                  IF idx = 0 THEN Hundred
                  ELSE IF prevUsers = 0 THEN Zero ELSE Percent(userCount, prevUsers))

\* the FunnelStepResult pushed by iteration idx of the loop
StepResult(req, idx, userCount, results, prevUsers) ==
  LET totalUsers == IF idx = 0 THEN userCount
                    ELSE IF Len(results) > 0 THEN results[1].users ELSE 0
      conversionRate == IF totalUsers > 0 THEN Percent(userCount, totalUsers) ELSE Zero
      stepConversionRate == IF idx = 0 \/ prevUsers = 0 THEN Hundred
                            ELSE Percent(userCount, prevUsers)
      dropoffRate == RatMinus(Hundred, stepConversionRate)
  IN [step |-> req.steps[idx + 1].name,
      stepIndex |-> idx,
      users |-> userCount,
      conversionRate |-> conversionRate,
      dropoffRate |-> IF idx = 0 THEN Zero ELSE dropoffRate,
      stepConversionRate |-> stepConversionRate]

\* the summary record
SummaryOf(totalUsers, completedUsers, stepConversionRates) ==
  [totalUsers |-> totalUsers,
   completedUsers |-> completedUsers,
   overallConversionRate |-> IF totalUsers > 0 THEN Percent(completedUsers, totalUsers)
                             ELSE Zero,
   avgStepConversionRate |-> IF Len(stepConversionRates) > 0
                             THEN RatDiv(RatSum(stepConversionRates), Len(stepConversionRates))
                             ELSE Hundred]

\* a summary that recomputes the step rates from the user counts, with 0 for
\* a step whose previous step had no users
SummaryRatesRecomputed(results) ==
  SummaryOf(IF Len(results) > 0 THEN results[1].users ELSE 0,
            IF Len(results) > 0 THEN results[Len(results)].users ELSE 0,
            [n \in 1..(Len(results) - 1) |->
               IF results[n].users = 0 THEN Zero
               ELSE Percent(results[n + 1].users, results[n].users)])

\* a summary whose completedUsers is read from the first step
SummaryCompletedFirst(results) ==
  SummaryOf(IF Len(results) > 0 THEN results[1].users ELSE 0,
            IF Len(results) > 0 THEN results[1].users ELSE 0,
            [n \in 1..(Len(results) - 1) |-> results[n + 1].stepConversionRate])

\* a summary whose mean takes in the first step: stepResults without slice(1)
SummaryMeanAllSteps(results) ==
  SummaryOf(IF Len(results) > 0 THEN results[1].users ELSE 0,
            IF Len(results) > 0 THEN results[Len(results)].users ELSE 0,
            [n \in 1..Len(results) |-> results[n].stepConversionRate])

\* the summary statistics computed after the loop
Summary(results) ==
  LET totalUsers == IF Len(results) > 0 THEN results[1].users ELSE 0
      completedUsers == IF Len(results) > 0 THEN results[Len(results)].users ELSE 0
      stepConversionRates == [n \in 1..(Len(results) - 1) |-> results[n + 1].stepConversionRate]
  IN [totalUsers |-> totalUsers,
      completedUsers |-> completedUsers,
      overallConversionRate |-> IF totalUsers > 0 THEN Percent(completedUsers, totalUsers)
                                ELSE Zero,
      avgStepConversionRate |-> IF Len(stepConversionRates) > 0
                                THEN RatDiv(RatSum(stepConversionRates), Len(stepConversionRates))
                                ELSE Hundred]

\* stepResults kept across invocations instead of created per call
StaleStepResults(c) == stepResults[CHOOSE d \in Invocations : d # c]

\* const stepResults = []
FreshStepResults(c) == <<>>

\* analyzeFunnel(request) from its entry to its first await, or to the throw
\* of a failed validation
Invoke(c, req) ==
  /\ request' = [request EXCEPT ![c] = req]
  /\ IF ValidationError(req) # NoError
     THEN /\ pc' = [pc EXCEPT ![c] = "rejected"]
          /\ outcome' = [outcome EXCEPT ![c] = [kind |-> "error", message |-> ValidationError(req)]]
          /\ UNCHANGED <<i, stepResults, previousUsers, queryLog>>
     ELSE /\ pc' = [pc EXCEPT ![c] = "awaiting"]
          /\ i' = [i EXCEPT ![c] = 0]
          /\ stepResults' = [stepResults EXCEPT ![c] = FreshStepResults(c)]
          /\ previousUsers' = [previousUsers EXCEPT ![c] = 0]
          /\ queryLog' = [queryLog EXCEPT ![c] = <<StepQuery(req, 0, 0, Undefined)>>]
          /\ UNCHANGED outcome
  /\ UNCHANGED store

\* a caller invokes analyzeFunnel with some request
Call(c) ==
  /\ pc[c] = "idle"
  /\ \E req \in Requests : Invoke(c, req)
  /\ UNCHANGED others

\* the query in flight
InFlight(c) == queryLog[c][Len(queryLog[c])]

\* a query that is not awaited: the log moves on while it is still in flight
LeavePending(log, res) == log

\* the awaited query settles
Settle(log, res) == [log EXCEPT ![Len(log)].result = res]

\* the loop of getUsersCompletingSequentialSteps goes on after the query for a
\* step before stepIndex has settled with `users`: the next step is queried
\* with those users as previousStepUsers
ResumeInner(c, res, users) ==
  /\ InFlight(c).step < InFlight(c).stepIndex
  /\ queryLog' = [queryLog EXCEPT ![c] =
       Append(Settle(@, res),
              StepQuery(request[c], InFlight(c).stepIndex, InFlight(c).step + 1,
                        Supplied(users)))]
  /\ UNCHANGED <<store, pc, request, i, stepResults, previousUsers, outcome, others>>

\* the query for step stepIndex has settled with `users`:
\* getUsersCompletingSequentialSteps returns them to analyzeFunnel, which pushes
\* the step's result and either starts the next iteration (up to its first
\* await) or returns steps and summary
ResumeLast(c, res, users) ==
  /\ InFlight(c).step = InFlight(c).stepIndex
  /\ LET userCount == Cardinality(users)
         results == Append(stepResults[c],
                           StepResult(request[c], i[c], userCount, stepResults[c],
                                      previousUsers[c]))
     IN /\ stepResults' = [stepResults EXCEPT ![c] = results]
        /\ previousUsers' = [previousUsers EXCEPT ![c] = userCount]
        /\ i' = [i EXCEPT ![c] = @ + 1]
        /\ IF i[c] + 1 < Len(request[c].steps)
           THEN /\ queryLog' = [queryLog EXCEPT ![c] =
                     Append(Settle(@, res), StepQuery(request[c], i[c] + 1, 0, Undefined))]
                /\ UNCHANGED <<pc, outcome>>
           ELSE /\ queryLog' = [queryLog EXCEPT ![c] = Settle(@, res)]
                /\ pc' = [pc EXCEPT ![c] = "resolved"]
                /\ outcome' = [outcome EXCEPT ![c] =
                     [kind |-> "ok", steps |-> results, summary |-> Summary(results)]]
  /\ UNCHANGED <<store, request, others>>

\* the aggregate of a step before stepIndex returns its users
QueryReturnsInner(c) ==
  /\ pc[c] = "awaiting"
  /\ LET users == Aggregate(store, InFlight(c).match)
     IN ResumeInner(c, Returned(users), users)

\* the aggregate of step stepIndex returns its users
QueryReturnsLast(c) ==
  /\ pc[c] = "awaiting"
  /\ LET users == Aggregate(store, InFlight(c).match)
     IN ResumeLast(c, Returned(users), users)

\* a catch that answers a failed query with no users instead of rethrowing
QueryFailsSwallowed(c) ==
  /\ pc[c] = "awaiting"
  /\ \/ ResumeInner(c, Failed, {})
     \/ ResumeLast(c, Failed, {})

\* the aggregate rejects: getUsersForStep and getUsersCompletingSequentialSteps
\* log and rethrow, analyzeFunnel has no catch, its promise rejects
QueryFails(c) ==
  /\ pc[c] = "awaiting"
  /\ queryLog' = [queryLog EXCEPT ![c] = Settle(@, Failed)]
  /\ pc' = [pc EXCEPT ![c] = "rejected"]
  /\ outcome' = [outcome EXCEPT ![c] = [kind |-> "error", message |-> "store error"]]
  /\ UNCHANGED <<store, request, i, stepResults, previousUsers, others>>

\* a caller repeats the request of a settled invocation
CallAgain(c, first) ==
  /\ pc[c] = "idle"
  /\ pc[first] \in {"resolved", "rejected"}
  /\ Invoke(c, request[first])
  /\ UNCHANGED others

(* ------------------- analyzeFunnel as one computation ------------------ *)
\* what getUsersCompletingSequentialSteps(steps, k) returns when nothing fails:
\* step 0 unrestricted, every later step restricted to the users before it
RECURSIVE SequentialUsers(_, _, _)
SequentialUsers(req, events, k) ==
  Aggregate(events,
            MatchConditions(req.steps[k + 1], ParseDate(req.startDate), ParseDate(req.endDate),
                            IF k = 0 THEN Undefined
                            ELSE Supplied(SequentialUsers(req, events, k - 1))))

\* stepResults after n iterations of the loop of analyzeFunnel
RECURSIVE ResultsAfter(_, _, _)
ResultsAfter(req, events, n) ==
  IF n = 0 THEN <<>>
  ELSE LET results == ResultsAfter(req, events, n - 1)
       IN Append(results,
                 StepResult(req, n - 1, Cardinality(SequentialUsers(req, events, n - 1)),
                            results,
                            IF n = 1 THEN 0 ELSE results[n - 1].users))

\* what analyzeFunnel(req) settles to on its own when no query fails
AloneOutcome(req, events) ==
  IF ValidationError(req) # NoError
  THEN [kind |-> "error", message |-> ValidationError(req)]
  ELSE LET results == ResultsAfter(req, events, Len(req.steps))
       IN [kind |-> "ok", steps |-> results, summary |-> Summary(results)]

\* the requests of the interleaved callers: full date window, two matchers
ConcurrentRequests ==
  {req \in Requests :
     /\ req.startDate = "2025-01-01T00:00:00Z"
     /\ req.endDate = "2025-01-31T23:59:59Z"
     /\ \A n \in 1..Len(req.steps) : req.steps[n].name \in {"Homepage", "Main Site"}}

\* a caller invokes analyzeFunnel while other invocations may be in flight
CallConcurrent(c) ==
  /\ pc[c] = "idle"
  /\ \E req \in ConcurrentRequests : Invoke(c, req)
  /\ UNCHANGED others

\* the one-step requests with parseable dates: each makes analyzeFunnel call
\* getUsersForStep once, without previousStepUsers
SingleStepRequests ==
  {req \in Requests :
     /\ Len(req.steps) = 1
     /\ ~IsNaN(ParseDate(req.startDate))
     /\ ~IsNaN(ParseDate(req.endDate))}

\* a caller invokes analyzeFunnel with one step
CallSingleStep(c) ==
  /\ pc[c] = "idle"
  /\ \E req \in SingleStepRequests : Invoke(c, req)
  /\ UNCHANGED others

\* the requests of one to MaxSteps + 1 steps over the whole window
DeepRequests ==
  {[steps |-> steps, startDate |-> "2025-01-01T00:00:00Z", endDate |-> "2025-01-31T23:59:59Z"] :
     steps \in SeqsUpTo(StepConfigs, MaxSteps + 1) \ {<<>>}}

\* a caller invokes analyzeFunnel with a funnel of up to MaxSteps + 1 steps
CallDeep(c) ==
  /\ pc[c] = "idle"
  /\ \E req \in DeepRequests : Invoke(c, req)
  /\ UNCHANGED others

(* ------------------- CampaignService.analyzeCampaigns ------------------- *)
\* the state of EventService and EventRepository
funnel == <<store, pc, request, i, stepResults, previousUsers, queryLog, outcome>>

UtmSources == {"absent", "google"}
UtmMediums == {"absent", "cpc"}

CampaignRequests ==
  [startDate : DateStrings, endDate : DateStrings,
   utm_source : UtmSources, utm_medium : UtmMediums]

\* the CampaignMetrics rows getCampaignMetrics may return
CampaignRows ==
  {[utm_campaign |-> "winter_2025", totalUsers |-> 2],
   [utm_campaign |-> "spring_2025", totalUsers |-> 1]}

\* what getCampaignMetrics may throw: an Error with a message, or a value that
\* is no Error
Thrown ==
  {[error |-> TRUE, message |-> "Database error"],
   [error |-> TRUE, message |-> "Connection timeout"],
   [error |-> FALSE, message |-> "not an Error"]}

\* the date checks without the comparison of the two dates
CampaignValidationErrorUnordered(req) ==
  IF IsNaN(ParseDate(req.startDate)) \/ IsNaN(ParseDate(req.endDate))
  THEN "Invalid date format"
  ELSE NoError

\* the two date checks of analyzeCampaigns
CampaignValidationError(req) ==
  IF IsNaN(ParseDate(req.startDate)) \/ IsNaN(ParseDate(req.endDate))
  THEN "Invalid date format"
  ELSE IF ParseDate(req.startDate).time > ParseDate(req.endDate).time
       THEN "Start date must be before end date"
       ELSE NoError

\* the object the catch block returns
CampaignFailure(errorMessage) ==
  [kind |-> "resolved", success |-> FALSE, error |-> errorMessage]

RECURSIVE SumTotalUsers(_)
SumTotalUsers(campaigns) ==
  IF Len(campaigns) = 0 THEN 0
  ELSE campaigns[1].totalUsers + SumTotalUsers(Tail(campaigns))

\* the object returned after getCampaignMetrics answered; topCampaign is
\* the first row, or null (no row)
CampaignSuccess(campaigns) ==
  [kind |-> "resolved", success |-> TRUE,
   data |-> [campaigns |-> campaigns,
             summary |-> [totalCampaigns |-> Len(campaigns),
                          totalUsers |-> SumTotalUsers(campaigns),
                          topCampaign |-> IF Len(campaigns) > 0 THEN <<campaigns[1]>>
                                          ELSE <<>>]]]

\* analyzeCampaigns(request) up to its await, or to the return of the catch
\* block when a date check throws
CallCampaigns ==
  /\ campaign.pc = "idle"
  /\ \E req \in CampaignRequests :
       campaign' =
         IF CampaignValidationError(req) # NoError
         THEN [pc |-> "settled", request |-> req, calls |-> <<>>,
               response |-> CampaignFailure(CampaignValidationError(req))]
         ELSE [pc |-> "awaiting", request |-> req,
               calls |-> <<[startDate |-> ParseDate(req.startDate).time,
                            endDate |-> ParseDate(req.endDate).time,
                            utm_source |-> req.utm_source,
                            utm_medium |-> req.utm_medium,
                            result |-> [status |-> "pending"]]>>,
               response |-> [kind |-> "none"]]
  /\ UNCHANGED <<funnel, http, abandoned, boot>>

\* getCampaignMetrics returns its rows: the summary is computed and returned
CampaignsReturn ==
  /\ campaign.pc = "awaiting"
  /\ \E campaigns \in SeqsUpTo(CampaignRows, MaxCampaigns) :
       campaign' = [campaign EXCEPT
                      !.pc = "settled",
                      !.calls[1].result = [status |-> "returned", campaigns |-> campaigns],
                      !.response = CampaignSuccess(campaigns)]
  /\ UNCHANGED <<funnel, http, abandoned, boot>>

\* getCampaignMetrics throws: the catch block answers with the message of an
\* Error, with 'Unknown error' otherwise
CampaignsThrow ==
  /\ campaign.pc = "awaiting"
  /\ \E x \in Thrown :
       campaign' = [campaign EXCEPT
                      !.pc = "settled",
                      !.calls[1].result = [status |-> "threw", thrown |-> x],
                      !.response = CampaignFailure(IF x.error THEN x.message
                                                   ELSE "Unknown error")]
  /\ UNCHANGED <<funnel, http, abandoned, boot>>

(* ------------------- EventController.analyzeFunnel --------------------- *)
\* a step of a posted body: null, or an object whose fields may be missing
BodySteps ==
  {[null |-> TRUE, name |-> Absent, matchType |-> Absent, matchValue |-> Absent]}
  \cup [null : {FALSE}, name : {Absent, "Homepage"},
        matchType : {Absent, "path", "regex"}, matchValue : {Absent, "/"}]

BodyDates == {Absent, "2025-01-01T00:00:00Z", "invalid-date"}

\* req.body: undefined, or an object whose steps are missing, no array, or an
\* array, and whose dates may be missing
Bodies ==
  {[kind |-> "undefined", steps |-> [kind |-> "missing", items |-> <<>>],
    startDate |-> Absent, endDate |-> Absent]}
  \cup [kind : {"object"},
        steps : {[kind |-> "missing", items |-> <<>>], [kind |-> "string", items |-> <<>>]}
                \cup {[kind |-> "array", items |-> items] : items \in SeqsUpTo(BodySteps, MaxSteps)},
        startDate : BodyDates,
        endDate : BodyDates]

\* !x for the values a field takes here
Falsy(x) == x = Absent

Passed == [status |-> 200, error |-> NoError]
BadRequest(message) == [status |-> 400, error |-> message]
TypeErrorCaught(message) == [status |-> 500, error |-> message]

\* the checks of the loop over body.steps with the matchType test left out
RECURSIVE StepChecksAnyType(_)
StepChecksAnyType(items) ==
  IF Len(items) = 0 THEN Passed
  ELSE IF items[1].null
       THEN TypeErrorCaught("Cannot read properties of null (reading 'name')")
       ELSE IF Falsy(items[1].name) \/ Falsy(items[1].matchType) \/ Falsy(items[1].matchValue)
            THEN BadRequest("Each step must have name, matchType, and matchValue")
            ELSE StepChecksAnyType(Tail(items))

\* the loop over body.steps: the first step that fails a check answers
RECURSIVE StepChecks(_)
StepChecks(items) ==
  IF Len(items) = 0 THEN Passed
  ELSE IF items[1].null
       THEN TypeErrorCaught("Cannot read properties of null (reading 'name')")
       ELSE IF Falsy(items[1].name) \/ Falsy(items[1].matchType) \/ Falsy(items[1].matchValue)
            THEN BadRequest("Each step must have name, matchType, and matchValue")
            ELSE IF items[1].matchType # "path" /\ items[1].matchType # "hostname"
                 THEN BadRequest("matchType must be either \"path\" or \"hostname\"")
                 ELSE StepChecks(Tail(items))

\* the validation of the controller, from the read of body.steps to the loop
BodyCheck(body) ==
  IF body.kind = "undefined"
  THEN TypeErrorCaught("Cannot read properties of undefined (reading 'steps')")
  ELSE IF body.steps.kind # "array" \/ Len(body.steps.items) = 0
       THEN BadRequest("At least one funnel step is required")
       ELSE IF Falsy(body.startDate) \/ Falsy(body.endDate)
            THEN BadRequest("Start date and end date are required")
            ELSE StepChecks(body.steps.items)

\* res.status(status).json({success: false, error})
FailureResponse(status, message) ==
  [kind |-> "sent", status |-> status, success |-> FALSE, error |-> message]

\* the body as the FunnelAnalysisRequest handed to the service
RequestOf(body) ==
  [steps |-> [n \in 1..Len(body.steps.items) |->
                [name |-> body.steps.items[n].name,
                 matchType |-> body.steps.items[n].matchType,
                 matchValue |-> body.steps.items[n].matchValue]],
   startDate |-> body.startDate,
   endDate |-> body.endDate]

\* POST /api/v1/events/funnel: the controller validates the body and answers
\* 400 (500 when the validation itself throws), or calls analyzeFunnel, which
\* runs to its first await or to its throw
Post(c) ==
  /\ pc[c] = "idle"
  /\ http[c] = NoExchange
  /\ \E body \in Bodies :
       IF BodyCheck(body) # Passed
       THEN /\ http' = [http EXCEPT ![c] =
                 [body |-> body,
                  response |-> FailureResponse(BodyCheck(body).status, BodyCheck(body).error)]]
            /\ UNCHANGED funnel
       ELSE /\ http' = [http EXCEPT ![c] = [body |-> body, response |-> [kind |-> "none"]]]
            /\ Invoke(c, RequestOf(body))
  /\ UNCHANGED <<abandoned, campaign, boot>>

\* the promise of analyzeFunnel has settled: the controller answers 200 with
\* the result, or 500 with the message of the error
Reply(c) ==
  /\ pc[c] \in {"resolved", "rejected"}
  /\ http[c].body.kind = "object"
  /\ http[c].response.kind = "none"
  /\ http' = [http EXCEPT ![c].response =
       IF outcome[c].kind = "ok"
       THEN [kind |-> "sent", status |-> 200, success |-> TRUE,
             data |-> [steps |-> outcome[c].steps, summary |-> outcome[c].summary]]
       ELSE FailureResponse(500, outcome[c].message)]
  /\ UNCHANGED <<funnel, abandoned, campaign, boot>>

(* ------- EventRepository.getUsersCompletingSequentialSteps, called ------ *)
(* ------- by a caller other than analyzeFunnel                      ------ *)
\* the arguments of a call: steps and stepIndex; startDate and endDate are
\* the two ends of the whole window
SequentialCalls ==
  [steps : SeqsUpTo(StepConfigs, MaxSteps), stepIndex : (-1)..MaxSteps]

\* an index check that lets stepIndex = steps.length through
InvalidStepIndexInclusive(steps, stepIndex) ==
  stepIndex < 0 \/ stepIndex > Len(steps)

\* stepIndex < 0 || stepIndex >= steps.length
InvalidStepIndex(steps, stepIndex) ==
  stepIndex < 0 \/ stepIndex >= Len(steps)

\* the catch block rethrows: the promise of the call rejects with the error
SequentialThrows(c, message) ==
  /\ pc' = [pc EXCEPT ![c] = "rejected"]
  /\ outcome' = [outcome EXCEPT ![c] = [kind |-> "error", message |-> message]]

\* getUsersCompletingSequentialSteps(steps, stepIndex, startDate, endDate)
\* from its entry to its first await, or to its throw; i holds stepIndex
CallSequential(c) ==
  /\ pc[c] = "idle"
  /\ \E call \in SequentialCalls :
       LET req == [steps |-> call.steps,
                   startDate |-> "2025-01-01T00:00:00Z",
                   endDate |-> "2025-01-31T23:59:59Z"]
       IN /\ request' = [request EXCEPT ![c] = req]
          /\ i' = [i EXCEPT ![c] = call.stepIndex]
          /\ IF InvalidStepIndex(call.steps, call.stepIndex)
             THEN /\ SequentialThrows(c, "Invalid step index: " \o ToString(call.stepIndex))
                  /\ UNCHANGED queryLog
             ELSE IF Len(call.steps) = 0
                  THEN /\ SequentialThrows(c, "No steps provided")
                       /\ UNCHANGED queryLog
                  ELSE /\ pc' = [pc EXCEPT ![c] = "awaiting"]
                       /\ queryLog' = [queryLog EXCEPT ![c] =
                            <<StepQuery(req, call.stepIndex, 0, Undefined)>>]
                       /\ UNCHANGED outcome
  /\ UNCHANGED <<store, stepResults, previousUsers, others>>

\* the query of a step before stepIndex returns: the loop goes on to the next
\* step, or throws when steps has no such step
SequentialInnerReturns(c) ==
  /\ pc[c] = "awaiting"
  /\ InFlight(c).step < InFlight(c).stepIndex
  /\ LET users == Aggregate(store, InFlight(c).match)
     IN IF InFlight(c).step + 1 >= Len(request[c].steps)
        THEN /\ queryLog' = [queryLog EXCEPT ![c] = Settle(@, Returned(users))]
             /\ SequentialThrows(c, "Step at index " \o ToString(InFlight(c).step + 1)
                                       \o " is undefined")
             /\ UNCHANGED <<store, request, i, stepResults, previousUsers, others>>
        ELSE ResumeInner(c, Returned(users), users)

\* a call that returns the users of step 0 whatever stepIndex is
SequentialLastReturnsFirst(c) ==
  /\ pc[c] = "awaiting"
  /\ InFlight(c).step = InFlight(c).stepIndex
  /\ LET users == Aggregate(store, InFlight(c).match)
     IN /\ queryLog' = [queryLog EXCEPT ![c] = Settle(@, Returned(users))]
        /\ pc' = [pc EXCEPT ![c] = "resolved"]
        /\ outcome' = [outcome EXCEPT ![c] =
             [kind |-> "users", users |-> IF Len(queryLog[c]) > 1
                                          THEN queryLog[c][1].result.users
                                          ELSE users]]
  /\ UNCHANGED <<store, request, i, stepResults, previousUsers, others>>

\* the query of step stepIndex returns: its users are the value of the call
SequentialLastReturns(c) ==
  /\ pc[c] = "awaiting"
  /\ InFlight(c).step = InFlight(c).stepIndex
  /\ LET users == Aggregate(store, InFlight(c).match)
     IN /\ queryLog' = [queryLog EXCEPT ![c] = Settle(@, Returned(users))]
        /\ pc' = [pc EXCEPT ![c] = "resolved"]
        /\ outcome' = [outcome EXCEPT ![c] = [kind |-> "users", users |-> users]]
  /\ UNCHANGED <<store, request, i, stepResults, previousUsers, others>>

(* ----------------- MongoDBClient and startServer ----------------------- *)
NotConnected == "Database not connected. Call connect() first."

\* a getDb that hands out this.db unchecked
GetDbUnchecked(db) == "getDb returned"

\* getDb(): this.db, or the throw when it is null
GetDb(db) == IF db = "null" THEN NotConnected ELSE "getDb returned"

\* startServer() up to the await of client.connect() inside connect()
StartServer ==
  /\ boot.pc = "start"
  /\ boot' = [boot EXCEPT !.pc = "connecting"]
  /\ UNCHANGED <<funnel, http, abandoned, campaign>>

\* client.connect() resolves: connect() sets db, and startServer goes on to
\* getDb(), createDependencies(db), which constructs the two repositories,
\* createApp and app.listen; a throw on the way is caught and the process
\* exits
ConnectResolves ==
  /\ boot.pc = "connecting"
  /\ LET got == GetDb("db")
     IN boot' =
          IF got = NotConnected
          THEN [boot EXCEPT !.db = "db", !.pc = "exited",
                            !.log = boot.log \o <<"connected", got>>]
          ELSE [boot EXCEPT !.db = "db", !.pc = "listening",
                            !.dependencies = TRUE, !.listening = TRUE,
                            !.log = boot.log \o <<"connected", got, "dependencies created",
                                                  "listening">>]
  /\ UNCHANGED <<funnel, http, abandoned, campaign>>

\* client.connect() rejects: connect() rethrows, startServer catches and
\* calls process.exit(1)
ConnectRejects ==
  /\ boot.pc = "connecting"
  /\ boot' = [boot EXCEPT !.pc = "exited", !.log = Append(boot.log, "connect failed")]
  /\ UNCHANGED <<funnel, http, abandoned, campaign>>

\* some code of the process calls mongoClient.getDb()
GetDbCalled ==
  /\ boot.pc # "exited"
  /\ boot.probes < MaxCalls
  /\ boot' = [boot EXCEPT !.probes = @ + 1, !.log = Append(boot.log, GetDb(boot.db))]
  /\ UNCHANGED <<funnel, http, abandoned, campaign>>

\* some code of the process calls mongoClient.disconnect(), up to the await
\* of client.close()
Disconnect ==
  /\ boot.pc # "exited"
  /\ ~boot.closing
  /\ boot.disconnects < MaxCalls
  /\ boot' = [boot EXCEPT !.closing = TRUE, !.disconnects = @ + 1]
  /\ UNCHANGED <<funnel, http, abandoned, campaign>>

\* SIGINT or SIGTERM: the handler calls disconnect() and will exit after it
Signal ==
  /\ boot.pc # "exited"
  /\ ~boot.closing
  /\ boot.disconnects < MaxCalls
  /\ boot' = [boot EXCEPT !.closing = TRUE, !.exiting = TRUE, !.disconnects = @ + 1]
  /\ UNCHANGED <<funnel, http, abandoned, campaign>>

\* client.close() resolves: disconnect() sets db to null, and a signal
\* handler that awaited it calls process.exit(0)
CloseResolves ==
  /\ boot.pc # "exited"
  /\ boot.closing
  /\ boot' = [boot EXCEPT !.closing = FALSE, !.db = "null",
                          !.pc = IF boot.exiting THEN "exited" ELSE @,
                          !.log = Append(boot.log, "disconnected")]
  /\ UNCHANGED <<funnel, http, abandoned, campaign>>

\* client.close() rejects: disconnect() rethrows with db as it was; the
\* rejection of a signal handler is unhandled, which may end the process
CloseRejects ==
  /\ boot.pc # "exited"
  /\ boot.closing
  /\ \E ends \in (IF boot.exiting THEN BOOLEAN ELSE {FALSE}) :
       boot' = [boot EXCEPT !.closing = FALSE, !.exiting = FALSE,
                            !.pc = IF ends THEN "exited" ELSE @,
                            !.log = Append(boot.log, "disconnect failed")]
  /\ UNCHANGED <<funnel, http, abandoned, campaign>>

\* the caller closes the connection while its request is in flight; neither
\* the controller nor the service listens for it, so only the fact is kept,
\* with the number of queries made so far
Abandon(c) ==
  /\ pc[c] = "awaiting"
  /\ http[c].body.kind = "object"
  /\ ~abandoned[c].yes
  /\ abandoned' = [abandoned EXCEPT ![c] = [yes |-> TRUE, queries |-> Len(queryLog[c])]]
  /\ UNCHANGED <<funnel, http, campaign, boot>>

\* the owner of the store appends an event; nothing of the server takes part
StoreAppend ==
  /\ Cardinality(store) < MaxEvents
  /\ \E e \in {x \in WebPageViews : x.date = 1} \ store : store' = store \cup {e}
  /\ UNCHANGED <<pc, request, i, stepResults, previousUsers, queryLog, outcome, others>>

(* --------------------------- specifications ---------------------------- *)
InitInvocations ==
  /\ pc = [c \in Invocations |-> "idle"]
  /\ request = [c \in Invocations |-> NoRequest]
  /\ i = [c \in Invocations |-> 0]
  /\ stepResults = [c \in Invocations |-> <<>>]
  /\ previousUsers = [c \in Invocations |-> 0]
  /\ queryLog = [c \in Invocations |-> <<>>]
  /\ outcome = [c \in Invocations |-> NoOutcome]
  /\ http = [c \in Invocations |-> NoExchange]
  /\ abandoned = [c \in Invocations |-> NotAbandoned]
  /\ campaign = NoCampaignCall
  /\ boot = NotStarted

\* an unchanged store of web page views
Init ==
  /\ store \in Stores(WebPageViews)
  /\ InitInvocations

\* one invocation
Next ==
  \/ Call("r1")
  \/ QueryReturnsInner("r1")
  \/ QueryReturnsLast("r1")
  \/ QueryFails("r1")

Spec == Init /\ [][Next]_vars

\* an unchanged store of web page views of one host
InitTwice ==
  /\ store \in Stores({e \in WebPageViews : e.hostname = "www.trainwell.net"})
  /\ InitInvocations

\* one invocation, and after it has settled a second one with the same request
NextTwice ==
  \/ Call("r1")
  \/ CallAgain("r2", "r1")
  \/ \E c \in Invocations : QueryReturnsInner(c)
  \/ \E c \in Invocations : QueryReturnsLast(c)
  \/ \E c \in Invocations : QueryFails(c)

SpecTwice == InitTwice /\ [][NextTwice]_vars

\* an unchanged store of web page views of one instant and one host
InitConcurrent ==
  /\ store \in Stores({e \in WebPageViews : e.date = 1 /\ e.hostname = "www.trainwell.net"})
  /\ InitInvocations

\* invocations on the same service and repository, interleaved at their awaits
NextConcurrent ==
  \/ \E c \in Invocations : CallConcurrent(c)
  \/ \E c \in Invocations : QueryReturnsInner(c)
  \/ \E c \in Invocations : QueryReturnsLast(c)
  \/ \E c \in Invocations : QueryFails(c)

SpecConcurrent == InitConcurrent /\ [][NextConcurrent]_vars

\* an unchanged store of events of any platform and type
InitResolver ==
  /\ store \in BoundedSubsets(EventUniverse, MaxEvents)
  /\ InitInvocations

\* one one-step invocation, its single query answered by the store
NextResolver ==
  \/ CallSingleStep("r1")
  \/ QueryReturnsLast("r1")

SpecResolver == InitResolver /\ [][NextResolver]_vars

\* an unchanged store of web page views of one instant
InitDeep ==
  /\ store \in Stores({e \in WebPageViews : e.date = 1})
  /\ InitInvocations

\* one invocation with a funnel of up to MaxSteps + 1 steps, every query
\* answered
NextDeep ==
  \/ CallDeep("r1")
  \/ QueryReturnsInner("r1")
  \/ QueryReturnsLast("r1")

SpecDeep == InitDeep /\ [][NextDeep]_vars

\* one invocation over an unchanged store of web page views of one instant
SpecSingleDay == InitDeep /\ [][Next]_vars

\* one call of analyzeCampaigns
InitCampaigns ==
  /\ store = {}
  /\ InitInvocations

NextCampaigns ==
  \/ CallCampaigns
  \/ CampaignsReturn
  \/ CampaignsThrow

SpecCampaigns == InitCampaigns /\ [][NextCampaigns]_vars

\* an unchanged store of web page views of one instant and one hostname
InitController ==
  /\ store \in Stores({e \in WebPageViews : e.date = 1 /\ e.hostname = "www.trainwell.net"})
  /\ InitInvocations

\* one request posted to the controller
NextController ==
  \/ Post("r1")
  \/ QueryReturnsInner("r1")
  \/ QueryReturnsLast("r1")
  \/ QueryFails("r1")
  \/ Reply("r1")

SpecController == InitController /\ [][NextController]_vars

\* an unchanged store of web page views of one instant
InitSequential ==
  /\ store \in Stores({e \in WebPageViews : e.date = 1})
  /\ InitInvocations

\* one call of getUsersCompletingSequentialSteps
NextSequential ==
  \/ CallSequential("r1")
  \/ SequentialInnerReturns("r1")
  \/ SequentialLastReturns("r1")
  \/ QueryFails("r1")

SpecSequential == InitSequential /\ [][NextSequential]_vars

\* the process at its start: the singleton exists, db is null
InitBoot ==
  /\ store = {}
  /\ InitInvocations

NextBoot ==
  \/ StartServer
  \/ ConnectResolves
  \/ ConnectRejects
  \/ GetDbCalled
  \/ Disconnect
  \/ Signal
  \/ CloseResolves
  \/ CloseRejects

SpecBoot == InitBoot /\ [][NextBoot]_vars

\* one request posted to the controller, which its caller may abandon
NextAbandon ==
  \/ Post("r1")
  \/ Abandon("r1")
  \/ QueryReturnsInner("r1")
  \/ QueryReturnsLast("r1")
  \/ QueryFails("r1")
  \/ Reply("r1")

SpecAbandon == InitController /\ [][NextAbandon]_vars

\* one invocation over a store that grows between its queries
NextAppend ==
  \/ Call("r1")
  \/ StoreAppend
  \/ QueryReturnsInner("r1")
  \/ QueryReturnsLast("r1")

SpecAppend == InitDeep /\ [][NextAppend]_vars

(* ------------------------------ claims --------------------------------- *)
\* the steps and dates of the request of invocation c
StepsOf(c) == request[c].steps
StartOf(c) == ParseDate(request[c].startDate).time
EndOf(c) == ParseDate(request[c].endDate).time

\* invocation c has returned steps and summary
Succeeded(c) == pc[c] = "resolved" /\ outcome[c].kind = "ok"

\* the users reported for the step at index n (from 0) of a successful result
UsersOf(c, n) == outcome[c].steps[n + 1].users

\* the positions of the log at which getUsersCompletingSequentialSteps(steps, n)
\* got its return value
CountedAtPositions(c, n) ==
  {k \in 1..Len(queryLog[c]) : /\ queryLog[c][k].stepIndex = n
                               /\ queryLog[c][k].step = n
                               /\ queryLog[c][k].result.status = "returned"}

\* the users counted toward the step at index n
CountedAt(c, n) == UNION {queryLog[c][k].result.users : k \in CountedAtPositions(c, n)}

\* event e is a web page view inside the date window of c that matches step
Qualifies(e, c, step) ==
  /\ e.platform = "web"
  /\ e.type = "page_view"
  /\ StartOf(c) <= e.date /\ e.date <= EndOf(c)
  /\ IF step.matchType = "path" THEN e.path = step.matchValue
     ELSE e.hostname = step.matchValue

\* C1: in a successful result the user counts never grow from one step to the
\* next, and the users counted toward a step are among those counted toward
\* the step before it
C1_Monotonicity ==
  \A c \in Invocations :
    Succeeded(c) =>
      \A n \in 1..(Len(StepsOf(c)) - 1) :
        /\ UsersOf(c, n) <= UsersOf(c, n - 1)
        /\ CountedAt(c, n) \subseteq CountedAt(c, n - 1)

\* C2: every user counted toward a step after the first has a qualifying event
\* for each earlier step
C2_SequentialCompletion ==
  \A c \in Invocations :
    \A n \in 1..(Len(StepsOf(c)) - 1) :
      \A u \in CountedAt(c, n) :
        \A m \in 0..(n - 1) :
          \E e \in store : e.user_id = u /\ Qualifies(e, c, StepsOf(c)[m + 1])

\* C3: a user whose qualifying events for a step all precede their qualifying
\* events for the step before it is not counted toward that step
C3_CompletedInOrder ==
  \A c \in Invocations :
    \A n \in 1..(Len(StepsOf(c)) - 1) :
      \A u \in Users :
        LET here == {e \in store : e.user_id = u /\ Qualifies(e, c, StepsOf(c)[n + 1])}
            before == {e \in store : e.user_id = u /\ Qualifies(e, c, StepsOf(c)[n])}
        IN (/\ here # {}
            /\ before # {}
            /\ \A e \in here : \A f \in before : e.date < f.date)
           => u \notin CountedAt(c, n)

\* C4: a successful result whose first step has no users has no users at any
\* step
C4_ZeroUserDegeneracy ==
  \A c \in Invocations :
    Succeeded(c) /\ UsersOf(c, 0) = 0 =>
      \A n \in 0..(Len(StepsOf(c)) - 1) : UsersOf(c, n) = 0

\* C5: a successful result whose first step has no users has conversionRate 0
\* at every step and overallConversionRate 0
C5_ZeroDenominatorRates ==
  \A c \in Invocations :
    Succeeded(c) /\ UsersOf(c, 0) = 0 =>
      /\ \A n \in 1..Len(outcome[c].steps) : outcome[c].steps[n].conversionRate = Zero
      /\ outcome[c].summary.overallConversionRate = Zero

\* a result whose first step has no users and whose second step has some: the
\* zero denominator meets a non-zero count
C5_Witness ==
  \E c \in Invocations :
      /\ Succeeded(c)
      /\ Len(outcome[c].steps) >= 2
      /\ UsersOf(c, 0) = 0
      /\ UsersOf(c, 1) > 0

\* C6: in a successful result the first step has stepConversionRate 100 and
\* dropoffRate 0, and conversionRate 100 when it has users
C6_FirstStepIdentity ==
  \A c \in Invocations :
    Succeeded(c) =>
      /\ outcome[c].steps[1].stepConversionRate = Hundred
      /\ outcome[c].steps[1].dropoffRate = Zero
      /\ (UsersOf(c, 0) > 0 => outcome[c].steps[1].conversionRate = Hundred)

\* a two-step result whose first step has users
C6_Witness ==
  \E c \in Invocations :
      /\ Succeeded(c)
      /\ Len(outcome[c].steps) >= 2
      /\ UsersOf(c, 0) > 0

\* the invocation was never refused an answer by the store
NoStoreError(c) == ~ (outcome[c].kind = "error" /\ outcome[c].message = "store error")

\* C7: two settled invocations with the same request against the unchanged
\* store, neither of them failed by the store, have the same outcome
C7_Idempotence ==
  \A c, d \in Invocations :
    (/\ pc[c] \in {"resolved", "rejected"}
     /\ pc[d] \in {"resolved", "rejected"}
     /\ request[c] = request[d]
     /\ NoStoreError(c)
     /\ NoStoreError(d))
    => outcome[c] = outcome[d]

\* both invocations have returned a two-step result with users at both steps
C7_Witness ==
  /\ Succeeded("r1")
  /\ Succeeded("r2")
  /\ Len(outcome["r2"].steps) >= 2
  /\ UsersOf("r2", 1) > 0

\* C8: an invocation with an empty steps array is rejected with 'At least one
\* funnel step is required' and issues no store query
C8_EmptySteps ==
  \A c \in Invocations :
    pc[c] # "idle" /\ Len(StepsOf(c)) = 0 =>
      /\ pc[c] = "rejected"
      /\ outcome[c] = [kind |-> "error", message |-> "At least one funnel step is required"]
      /\ queryLog[c] = <<>>

\* an empty steps array came with a date string that does not parse
C8_Witness ==
  \E c \in Invocations :
    /\ pc[c] = "rejected"
    /\ Len(StepsOf(c)) = 0
    /\ request[c].startDate = "invalid-date"

\* C9: an invocation with at least one step and a date string that does not
\* parse is rejected with 'Invalid date format' and issues no store query
C9_InvalidDate ==
  \A c \in Invocations :
    (/\ pc[c] # "idle"
     /\ Len(StepsOf(c)) >= 1
     /\ "invalid-date" \in {request[c].startDate, request[c].endDate})
    => /\ pc[c] = "rejected"
       /\ outcome[c] = [kind |-> "error", message |-> "Invalid date format"]
       /\ queryLog[c] = <<>>

\* a request with steps whose startDate parses and whose endDate does not
C9_Witness ==
  \E c \in Invocations :
    /\ pc[c] = "rejected"
    /\ Len(StepsOf(c)) >= 1
    /\ request[c].startDate = "2025-01-01T00:00:00Z"
    /\ request[c].endDate = "invalid-date"

\* C10: a failed store query is the last query of its invocation, and the
\* invocation is rejected with the one store error, without steps or summary
C10_StoreFailureAborts ==
  \A c \in Invocations :
    \A k \in 1..Len(queryLog[c]) :
      queryLog[c][k].result.status = "failed" =>
        /\ k = Len(queryLog[c])
        /\ pc[c] = "rejected"
        /\ outcome[c] = [kind |-> "error", message |-> "store error"]

\* a query failed after the first step had been resolved
C10_Witness ==
  \E c \in Invocations :
    /\ Len(queryLog[c]) >= 2
    /\ queryLog[c][Len(queryLog[c])].result.status = "failed"
    /\ Len(stepResults[c]) >= 1
    /\ pc[c] = "rejected"

\* C11: the queries of one invocation are issued one after another: only the
\* last query of an invocation can be in flight, and a query for a step after
\* the first is issued with the users its predecessor, the query for the step
\* before it, has returned
C11_QueriesOneAtATime ==
  \A c \in Invocations :
    \A k \in 1..Len(queryLog[c]) :
      /\ queryLog[c][k].result.status = "pending" => k = Len(queryLog[c])
      /\ queryLog[c][k].step > 0 =>
           /\ k > 1
           /\ queryLog[c][k - 1].step = queryLog[c][k].step - 1
           /\ queryLog[c][k - 1].stepIndex = queryLog[c][k].stepIndex
           /\ queryLog[c][k - 1].result.status = "returned"
           /\ queryLog[c][k].previousStepUsers = Supplied(queryLog[c][k - 1].result.users)

\* the query for the second step is in flight after the query for the first
\* step has returned users
C11_Witness ==
  \E c \in Invocations :
    /\ pc[c] = "awaiting"
    /\ InFlight(c).step = 1
    /\ queryLog[c][Len(queryLog[c]) - 1].result.users # {}

\* the variables of invocation c
Frame(c) ==
  <<pc[c], request[c], i[c], stepResults[c], previousUsers[c], queryLog[c], outcome[c]>>

\* C12: interleaved invocations each settle to what they settle to alone
\* (store failures aside), and a step of one invocation leaves the variables
\* of every other invocation as they are
C12_IndependentInvocations ==
  /\ [](\A c \in Invocations :
          pc[c] \in {"resolved", "rejected"} /\ NoStoreError(c) =>
            outcome[c] = AloneOutcome(request[c], store))
  /\ [][\E c \in Invocations : \A d \in Invocations \ {c} : Frame(d)' = Frame(d)]_vars

\* two invocations with different requests are both past their first query
C12_Witness ==
  /\ pc["r1"] = "awaiting"
  /\ pc["r2"] = "awaiting"
  /\ request["r1"] # request["r2"]
  /\ Len(queryLog["r1"]) >= 2
  /\ Len(queryLog["r2"]) >= 2
  /\ \E k \in 1..Len(queryLog["r2"]) : queryLog["r2"][k].result.users # {}

\* the step a query of invocation c was issued for
StepOfQuery(c, k) == StepsOf(c)[queryLog[c][k].step + 1]

\* the users with a web page view inside the window of c that matches step
QualifyingUsers(c, step) ==
  {u \in Users : \E e \in store : e.user_id = u /\ Qualifies(e, c, step)}

\* C13: a query issued with a candidate user set carries the restriction
\* user_id in that set and returns only users of that set, the empty set
\* included
C13_CandidateRestriction ==
  \A c \in Invocations :
    \A k \in 1..Len(queryLog[c]) :
      queryLog[c][k].previousStepUsers.defined =>
        /\ queryLog[c][k].match.user_id =
             [present |-> TRUE, in |-> queryLog[c][k].previousStepUsers.users]
        /\ queryLog[c][k].result.users \subseteq queryLog[c][k].previousStepUsers.users

\* C14: a query issued without a candidate set returns exactly the users that
\* have a web page view inside the inclusive date window matching the step
C14_ResolverWithoutCandidates ==
  \A c \in Invocations :
    \A k \in 1..Len(queryLog[c]) :
      (/\ ~queryLog[c][k].previousStepUsers.defined
       /\ queryLog[c][k].result.status = "returned")
      => queryLog[c][k].result.users = QualifyingUsers(c, StepOfQuery(c, k))

\* the window is a single instant; one user has a web page view at it that
\* matches the step and is returned, another user matches the step only with
\* an event of another platform or type and is not
C14_Witness ==
  \E c \in Invocations :
    /\ pc[c] = "resolved"
    /\ StartOf(c) = EndOf(c)
    /\ \E e \in store, f \in store :
         /\ Qualifies(e, c, StepsOf(c)[1])
         /\ f.user_id # e.user_id
         /\ f.platform # "web" \/ f.type # "page_view"
         /\ f.date = e.date /\ f.path = e.path /\ f.hostname = e.hostname
         /\ queryLog[c][1].result.users = {e.user_id}

\* C15: the query for a hostname step carries the hostname condition and no
\* path condition, the query for a path step the path condition and no
\* hostname condition, and every user a query returns has an event whose
\* matched field equals the matchValue
C15_MatchedFieldOnly ==
  \A c \in Invocations :
    \A k \in 1..Len(queryLog[c]) :
      LET step == StepOfQuery(c, k)
          m == queryLog[c][k].match
      IN /\ step.matchType = "hostname" => m.hostname = step.matchValue /\ m.path = Absent
         /\ step.matchType = "path" => m.path = step.matchValue /\ m.hostname = Absent
         /\ \A u \in queryLog[c][k].result.users :
              \E e \in store :
                /\ e.user_id = u
                /\ IF step.matchType = "hostname" THEN e.hostname = step.matchValue
                   ELSE e.path = step.matchValue

\* the only event of the store has the matchValue of a hostname step as its
\* path and another hostname, and the step's query has returned nobody
C15_Witness ==
  \E c \in Invocations :
    /\ pc[c] = "resolved"
    /\ Len(StepsOf(c)) = 1
    /\ StepsOf(c)[1].matchType = "hostname"
    /\ \E e \in store :
         /\ store = {e}
         /\ e.path = StepsOf(c)[1].matchValue
         /\ e.hostname # StepsOf(c)[1].matchValue
         /\ StartOf(c) <= e.date /\ e.date <= EndOf(c)
    /\ queryLog[c][1].result = Returned({})

\* the steps of the result after the first whose previous step has no users
AfterEmptyStep(c) ==
  {n \in 1..(Len(outcome[c].steps) - 1) : UsersOf(c, n - 1) = 0}

\* C16 as stated: in a successful result every step after the first whose
\* previous step has no users has stepConversionRate 0
C16_ZeroAfterEmptyStep ==
  \A c \in Invocations :
    Succeeded(c) =>
      \A n \in AfterEmptyStep(c) : outcome[c].steps[n + 1].stepConversionRate = Zero

\* C16: the percentages whose denominator is the first step's user count are 0
\* when that count is 0, whereas the stepConversionRate of a step whose
\* previous step has no users is 100, not 0
C16_ZeroDenominators ==
  \A c \in Invocations :
    Succeeded(c) =>
      /\ UsersOf(c, 0) = 0 =>
           /\ \A n \in 0..(Len(outcome[c].steps) - 1) :
                outcome[c].steps[n + 1].conversionRate = Zero
           /\ outcome[c].summary.overallConversionRate = Zero
      /\ \A n \in AfterEmptyStep(c) :
           outcome[c].steps[n + 1].stepConversionRate = Hundred

\* a two-step result without users at either step: every denominator is 0
C16_Witness ==
  \E c \in Invocations :
    /\ Succeeded(c)
    /\ Len(outcome[c].steps) = 2
    /\ UsersOf(c, 0) = 0
    /\ UsersOf(c, 1) = 0

\* the stepConversionRate of step n recomputed from the user counts of the
\* result, 100 standing in when the previous step has no users
RateFromCounts(c, n) ==
  IF UsersOf(c, n - 1) = 0 THEN Hundred
  ELSE Percent(UsersOf(c, n), UsersOf(c, n - 1))

\* C17: in a successful result every step after the first whose previous step
\* has no users has stepConversionRate 100 and dropoffRate 0, and
\* avgStepConversionRate is the mean of the step rates with that 100 in it
C17_HundredAfterEmptyStep ==
  \A c \in Invocations :
    Succeeded(c) =>
      /\ \A n \in AfterEmptyStep(c) :
           /\ outcome[c].steps[n + 1].stepConversionRate = Hundred
           /\ outcome[c].steps[n + 1].dropoffRate = Zero
      /\ Len(outcome[c].steps) >= 2 =>
           outcome[c].summary.avgStepConversionRate =
             RatDiv(RatSum([n \in 1..(Len(outcome[c].steps) - 1) |-> RateFromCounts(c, n)]),
                    Len(outcome[c].steps) - 1)

\* a result whose first step has no users, whose second has some and whose
\* third has fewer: the mean takes in the forced 100 and a proper ratio
C17_Witness ==
  \E c \in Invocations :
    /\ Succeeded(c)
    /\ Len(outcome[c].steps) >= 3
    /\ UsersOf(c, 0) = 0
    /\ UsersOf(c, 1) > 0
    /\ UsersOf(c, 2) < UsersOf(c, 1)

\* C18: in a successful result totalUsers is the first step's users,
\* completedUsers the last step's, overallConversionRate their ratio in
\* percent (0 without total users) and equal to the last step's
\* conversionRate; the steps are those of the request, in order, each with its
\* position as stepIndex
C18_SummaryTotals ==
  \A c \in Invocations :
    Succeeded(c) =>
      LET steps == outcome[c].steps
          summary == outcome[c].summary
      IN /\ summary.totalUsers = steps[1].users
         /\ summary.completedUsers = steps[Len(steps)].users
         /\ summary.overallConversionRate =
              IF summary.totalUsers = 0 THEN Zero
              ELSE Percent(summary.completedUsers, summary.totalUsers)
         /\ summary.overallConversionRate = steps[Len(steps)].conversionRate
         /\ Len(steps) = Len(StepsOf(c))
         /\ \A n \in 1..Len(steps) :
              /\ steps[n].stepIndex = n - 1
              /\ steps[n].step = StepsOf(c)[n].name

\* a result of two different steps in which some but not all users of the
\* first step complete the second
C18_Witness ==
  \E c \in Invocations :
    /\ Succeeded(c)
    /\ Len(outcome[c].steps) = 2
    /\ StepsOf(c)[1] # StepsOf(c)[2]
    /\ UsersOf(c, 1) > 0
    /\ UsersOf(c, 0) > UsersOf(c, 1)

\* C19: in a successful result avgStepConversionRate is 100 for a single step
\* and otherwise the sum of the stepConversionRate of every step but the
\* first, divided by their number
C19_MeanOfLaterSteps ==
  \A c \in Invocations :
    Succeeded(c) =>
      LET steps == outcome[c].steps
      IN outcome[c].summary.avgStepConversionRate =
           IF Len(steps) = 1 THEN Hundred
           ELSE RatDiv(RatSum([n \in 1..(Len(steps) - 1) |-> steps[n + 1].stepConversionRate]),
                       Len(steps) - 1)

\* a result of at least three steps whose second and third steps have
\* different rates, neither of them 100
C19_Witness ==
  \E c \in Invocations :
    /\ Succeeded(c)
    /\ Len(outcome[c].steps) >= 3
    /\ outcome[c].steps[2].stepConversionRate # outcome[c].steps[3].stepConversionRate
    /\ outcome[c].steps[2].stepConversionRate # Hundred
    /\ outcome[c].steps[3].stepConversionRate # Hundred

\* the request of c has steps and two parseable dates, the start after the end
StartAfterEnd(c) ==
  /\ Len(StepsOf(c)) >= 1
  /\ ~IsNaN(ParseDate(request[c].startDate))
  /\ ~IsNaN(ParseDate(request[c].endDate))
  /\ StartOf(c) > EndOf(c)

\* C20: a request with steps and a parseable startDate later than its
\* parseable endDate is not refused by the validation: the store is queried,
\* and when the store answers, the result is a success in which every step
\* has 0 users
C20_StartAfterEndAccepted ==
  \A c \in Invocations :
    StartAfterEnd(c) =>
      /\ Len(queryLog[c]) >= 1
      /\ NoStoreError(c) => outcome[c].kind # "error"
      /\ pc[c] = "resolved" =>
           /\ outcome[c].kind = "ok"
           /\ \A n \in 0..(Len(outcome[c].steps) - 1) : UsersOf(c, n) = 0

\* a successful two-step result for a window that ends before it starts, over
\* a store holding an event that matches the first step at some instant
C20_Witness ==
  \E c \in Invocations :
    /\ StartAfterEnd(c)
    /\ Succeeded(c)
    /\ Len(outcome[c].steps) = 2
    /\ \E e \in store :
         IF StepsOf(c)[1].matchType = "hostname" THEN e.hostname = StepsOf(c)[1].matchValue
         ELSE e.path = StepsOf(c)[1].matchValue

\* C21: analyzeCampaigns answers an unparseable date with the failure
\* 'Invalid date format' and a startDate after the endDate with the failure
\* 'Start date must be before end date', both without a repository call; a
\* call that has settled has resolved, never rejected; and when the repository
\* throws, the answer is a failure carrying the message of the Error thrown
C21_CampaignFailures ==
  campaign.pc # "idle" =>
    LET start == ParseDate(campaign.request.startDate)
        end == ParseDate(campaign.request.endDate)
    IN /\ IsNaN(start) \/ IsNaN(end) =>
            /\ campaign.response = CampaignFailure("Invalid date format")
            /\ campaign.calls = <<>>
       /\ (~IsNaN(start) /\ ~IsNaN(end) /\ start.time > end.time) =>
            /\ campaign.response = CampaignFailure("Start date must be before end date")
            /\ campaign.calls = <<>>
       /\ campaign.pc = "settled" => campaign.response.kind = "resolved"
       /\ (Len(campaign.calls) > 0 /\ campaign.calls[1].result.status = "threw") =>
            /\ campaign.response.success = FALSE
            /\ campaign.calls[1].result.thrown.error =>
                 campaign.response.error = campaign.calls[1].result.thrown.message

\* a call with two parseable dates, the start after the end, has been answered
C21_Witness ==
  /\ campaign.pc = "settled"
  /\ campaign.request.startDate = "2025-01-31T23:59:59Z"
  /\ campaign.request.endDate = "2025-01-01T00:00:00Z"
  /\ campaign.response.success = FALSE

\* a step of a body that lacks a field or names a matchType that is neither
\* 'path' nor 'hostname'
MalformedStep(step) ==
  \/ step.null
  \/ step.name = Absent \/ step.matchType = Absent \/ step.matchValue = Absent
  \/ step.matchType \notin {"path", "hostname"}

\* a posted body without a non-empty steps array, without a date, or with a
\* malformed step
Malformed(body) ==
  \/ body.kind = "undefined"
  \/ body.steps.kind # "array"
  \/ Len(body.steps.items) = 0
  \/ body.startDate = Absent \/ body.endDate = Absent
  \/ \E n \in 1..Len(body.steps.items) : MalformedStep(body.steps.items[n])

\* C22: a malformed body is answered with a failure object and analyzeFunnel
\* is not called for it: the invocation has no request and has made no query
C22_MalformedBodyRefused ==
  \A c \in Invocations :
    (http[c].body.kind # "none" /\ Malformed(http[c].body)) =>
      /\ http[c].response.kind = "sent"
      /\ http[c].response.success = FALSE
      /\ pc[c] = "idle"
      /\ request[c] = NoRequest
      /\ queryLog[c] = <<>>

\* a body with two dates and two steps, the first well-formed, the second with
\* a matchType outside path and hostname, has been answered over a store
\* that holds events
C22_Witness ==
  \E c \in Invocations :
    /\ http[c].body.kind = "object"
    /\ http[c].body.startDate # Absent /\ http[c].body.endDate # Absent
    /\ http[c].body.steps.kind = "array"
    /\ Len(http[c].body.steps.items) = 2
    /\ ~MalformedStep(http[c].body.steps.items[1])
    /\ http[c].body.steps.items[2].matchType = "regex"
    /\ http[c].body.steps.items[2].name # Absent
    /\ http[c].body.steps.items[2].matchValue # Absent
    /\ http[c].response.kind = "sent"
    /\ store # {}

\* C23: a call of getUsersCompletingSequentialSteps with a stepIndex k inside
\* the steps queries steps 0, 1, ... in that order and never beyond k, hands
\* each query after the first the users the query before it returned, and
\* returns after exactly k + 1 queries with the users of the last one
C23_SequentialQueries ==
  \A c \in Invocations :
    (pc[c] # "idle" /\ 0 <= i[c] /\ i[c] < Len(StepsOf(c))) =>
      /\ Len(queryLog[c]) <= i[c] + 1
      /\ \A k \in 1..Len(queryLog[c]) :
           /\ queryLog[c][k].step = k - 1
           /\ queryLog[c][k].match.path \in {StepsOf(c)[k].matchValue, Absent}
           /\ queryLog[c][k].match.hostname \in {StepsOf(c)[k].matchValue, Absent}
           /\ queryLog[c][k].previousStepUsers =
                IF k = 1 THEN Undefined ELSE Supplied(queryLog[c][k - 1].result.users)
      /\ pc[c] = "resolved" =>
           /\ Len(queryLog[c]) = i[c] + 1
           /\ outcome[c] = [kind |-> "users", users |-> queryLog[c][i[c] + 1].result.users]

\* a call for the second step has returned fewer users than its first query
C23_Witness ==
  \E c \in Invocations :
    /\ pc[c] = "resolved"
    /\ i[c] = 1
    /\ Len(queryLog[c]) = 2
    /\ Cardinality(queryLog[c][2].result.users) < Cardinality(queryLog[c][1].result.users)

\* C25: a call of getUsersCompletingSequentialSteps with a stepIndex below 0
\* or not below the number of steps rejects with 'Invalid step index: '
\* followed by the index, and issues no query
C25_InvalidStepIndex ==
  \A c \in Invocations :
    (pc[c] # "idle" /\ (i[c] < 0 \/ i[c] >= Len(StepsOf(c)))) =>
      /\ pc[c] = "rejected"
      /\ outcome[c].kind = "error"
      /\ outcome[c].message =
           "Invalid step index: " \o (CASE i[c] = -1 -> "-1" [] i[c] = 0 -> "0"
                                        [] i[c] = 1 -> "1" [] i[c] = 2 -> "2"
                                        [] OTHER -> ToString(i[c]))
      /\ queryLog[c] = <<>>

\* a call with two steps and stepIndex 2 has been rejected
C25_Witness ==
  \E c \in Invocations :
    /\ pc[c] = "rejected"
    /\ Len(StepsOf(c)) = 2
    /\ i[c] = 2
    /\ store # {}

\* C24: a successful analysis has issued one query per step: the first
\* without candidates, each later one for the next step with the users the
\* query before it returned
C24_OneQueryPerStep ==
  \A c \in Invocations :
    Succeeded(c) =>
      /\ Len(queryLog[c]) = Len(StepsOf(c))
      /\ \A k \in 1..Len(queryLog[c]) :
           /\ queryLog[c][k].step = k - 1
           /\ queryLog[c][k].previousStepUsers =
                IF k = 1 THEN Undefined ELSE Supplied(queryLog[c][k - 1].result.users)

\* whether, by the events of log, a connect() has succeeded and no
\* disconnect() has completed since
RECURSIVE LiveAfter(_)
LiveAfter(log) ==
  IF Len(log) = 0 THEN FALSE
  ELSE IF log[Len(log)] = "connected" THEN TRUE
       ELSE IF log[Len(log)] = "disconnected" THEN FALSE
            ELSE LiveAfter(SubSeq(log, 1, Len(log) - 1))

C27_NoQueryAfterAbandon ==
  \A c \in Invocations :
    abandoned[c].yes => Len(queryLog[c]) = abandoned[c].queries

\* a percentage between 0 and 100
InPercentRange(x) == RatLeq(Zero, x) /\ RatLeq(x, Hundred)

\* C28: in a successful result every conversionRate, stepConversionRate and
\* dropoffRate, and the overallConversionRate, lie between 0 and 100
C28_PercentagesInRange ==
  \A c \in Invocations :
    Succeeded(c) =>
      /\ \A n \in 1..Len(outcome[c].steps) :
           /\ InPercentRange(outcome[c].steps[n].conversionRate)
           /\ InPercentRange(outcome[c].steps[n].stepConversionRate)
           /\ InPercentRange(outcome[c].steps[n].dropoffRate)
      /\ InPercentRange(outcome[c].summary.overallConversionRate)

\* C29: in a successful result, also over a store that was appended to
\* between the queries, a step whose previous step reported users reports no
\* more users than it, and the users it counts are among those counted there
C29_MonotoneUnderAppends ==
  \A c \in Invocations :
    Succeeded(c) =>
      \A n \in 1..(Len(StepsOf(c)) - 1) :
        UsersOf(c, n - 1) > 0 =>
          /\ UsersOf(c, n) <= UsersOf(c, n - 1)
          /\ CountedAt(c, n) \subseteq CountedAt(c, n - 1)

\* C30: in a successful result, a step that has the matchType and matchValue
\* of the step before it reports the same number of users as that step,
\* also when that number is 0
C30_RepeatedStepNoOp ==
  \A c \in Invocations :
    Succeeded(c) =>
      \A n \in 1..(Len(StepsOf(c)) - 1) :
        ( /\ StepsOf(c)[n + 1].matchType = StepsOf(c)[n].matchType
          /\ StepsOf(c)[n + 1].matchValue = StepsOf(c)[n].matchValue )
          => UsersOf(c, n) = UsersOf(c, n - 1)

====
